---- MODULE Spec2Model ----
(***************************************************************************)
(* Span ingestion of phoenix (src/phoenix/db/insertion/span.py).           *)
(*                                                                         *)
(* The store is the five tables insert_span reads and writes.  A Project,  *)
(* Trace or Span row is named by its unique key (name, trace_id, span_id): *)
(* the surrogate row ids of these tables are in one-to-one correspondence  *)
(* with the keys, so a foreign key is written as the key it points to.     *)
(* ProjectSession and ChatSessionSpan rows are sequences in insertion      *)
(* order, and the id of a row is its index.                                *)
(***************************************************************************)
EXTENDS Integers, Sequences, FiniteSets, TLC

VARIABLES
    workload,   \* the class of inputs this run draws its calls from
    projects,   \* Project rows: the set of stored names
    traces,     \* Trace rows: trace_id -> [project_rowid, start_time, end_time]
    spans,      \* Span rows: span_id -> row
    sessions,   \* ProjectSession rows, in insertion order
    links,      \* ChatSessionSpan rows, in insertion order
    passed,     \* history: trace_id -> the earliest start and the latest end of
                \* the spans passed for it in the calls that came to an end
    call,       \* the arguments of the last insert_span call
    ret,        \* what the last insert_span call returned
    txn,        \* the calls in progress at the same time, each in its transaction
    pager,      \* a client of connection_from_list paging through a list
    jwt         \* a token store: its table, its cache, its refresh task, its callers

storeVars == <<projects, traces, spans, sessions, links>>
vars == <<workload, projects, traces, spans, sessions, links, passed, call, ret, txn,
          pager, jwt>>

----------------------------------------------------------------------------
(* Bounds of the model *)

MaxTime == 3        \* timestamps are 1..MaxTime
MaxTokens == 2      \* largest own token count of an input span

(* Optional values: None is the empty sequence, a value v is <<v>>. *)
None == <<>>
Some(v) == <<v>>
OrZero(o) == IF o = <<>> THEN 0 ELSE o[1]

SpanIds == {"a", "b", "c"}
TraceIds == {"t1", "t2"}
ProjectNames == {"p1", "p2"}
Times == 1..MaxTime

----------------------------------------------------------------------------
(* Python text, as sequences of one-character strings *)

Whitespace == {" "}

RECURSIVE LStrip(_)
LStrip(s) == IF s # <<>> /\ Head(s) \in Whitespace THEN LStrip(Tail(s)) ELSE s

RECURSIVE RStrip(_)
RStrip(s) ==
    IF s # <<>> /\ s[Len(s)] \in Whitespace THEN RStrip(SubSeq(s, 1, Len(s) - 1)) ELSE s

\* str.strip()
Strip(s) == RStrip(LStrip(s))

LowerChar(c) ==
    CASE c = "L" -> "l"
      [] c = "M" -> "m"
      [] c = "C" -> "c"
      [] OTHER -> c

\* str.lower()
Lower(s) == [i \in 1..Len(s) |-> LowerChar(s[i])]

\* An attribute value that is absent, text or a number.
\* kind is "none", "str" or "int"; str and num hold the value of that kind.
NoAttr == [kind |-> "none", str |-> <<>>, num |-> 0]
StrAttr(s) == [kind |-> "str", str |-> s, num |-> 0]
IntAttr(n) == [kind |-> "int", str |-> <<>>, num |-> n]

Digit(n) == CASE n = 0 -> "0" [] n = 1 -> "1" [] n = 2 -> "2" [] OTHER -> "9"

\* str(value) of a present attribute (numbers of the model have one digit)
ToStr(a) == IF a.kind = "str" THEN a.str ELSE <<Digit(a.num)>>

LLM == <<"L", "L", "M">>

----------------------------------------------------------------------------
(* The store as one value, and the writes a statement makes to it *)

DB == [projects |-> projects, traces |-> traces, spans |-> spans,
       sessions |-> sessions, links |-> links]

EmptyDB == [projects |-> {}, traces |-> <<>>, spans |-> <<>>,
            sessions |-> <<>>, links |-> <<>>]

\* f with key k set to v, k new or not
Put(f, k, v) == [x \in DOMAIN f \cup {k} |-> IF x = k THEN v ELSE f[x]]

\* One write. op names the statement, key the row (or the rows), row the values.
Write(op, key, row) == [op |-> op, key |-> key, row |-> row]

\* IncSpanRow that writes the values over the counters.
IncSpanRow_Overwritten(r, d) ==
    [r EXCEPT !.cumulative_error_count = d.err,
              !.cumulative_llm_token_count_prompt = d.prompt,
              !.cumulative_llm_token_count_completion = d.completion]

IncSpanRow(r, d) ==
    [r EXCEPT !.cumulative_error_count = @ + d.err,
              !.cumulative_llm_token_count_prompt = @ + d.prompt,
              !.cumulative_llm_token_count_completion = @ + d.completion]

Apply(db, w) ==
    CASE w.op = "insert_project" ->
            [db EXCEPT !.projects = @ \cup {w.key}]
      [] w.op = "insert_trace" ->
            [db EXCEPT !.traces = Put(@, w.key, w.row)]
      [] w.op = "update_trace" ->
            [db EXCEPT !.traces = Put(@, w.key, w.row)]
      [] w.op = "insert_span" ->
            [db EXCEPT !.spans = Put(@, w.key, w.row)]
      [] w.op = "increment_spans" ->
            [db EXCEPT !.spans =
                [k \in DOMAIN @ |-> IF k \in w.key THEN IncSpanRow(@[k], w.row) ELSE @[k]]]
      [] w.op = "insert_session" ->
            [db EXCEPT !.sessions = Append(@, w.row)]
      [] w.op = "update_session" ->
            [db EXCEPT !.sessions[w.key] = w.row]
      [] w.op = "insert_link" ->
            [db EXCEPT !.links = Append(@, w.row)]

RECURSIVE ApplyAll(_, _)
ApplyAll(db, ws) == IF ws = <<>> THEN db ELSE ApplyAll(Apply(db, Head(ws)), Tail(ws))

----------------------------------------------------------------------------
(* The statements of insert_span.  Each reads a view of the store and gives *)
(* the writes it makes; v is the store as the statement sees it.            *)

RECURSIVE SumOver(_, _, _)
SumOver(S, f, col) ==
    IF S = {} THEN 0
    ELSE LET k == CHOOSE x \in S : TRUE
         IN f[k][col] + SumOver(S \ {k}, f, col)

\* ResolveProject that never inserts.
ResolveProject_NoInsert(v, project_name) == <<>>

\* Project lookup by name and, when absent, the insert.
ResolveProject(v, project_name) ==
    IF project_name \in v.projects THEN <<>>
    ELSE <<Write("insert_project", project_name, project_name)>>

\* WidenedTrace with the start overwritten whether or not the span starts earlier.
WidenedTrace_StartOverwritten(trace, span, project_rowid) ==
    [start_time |-> span.start_time,
     end_time |-> IF trace.end_time < span.end_time THEN span.end_time ELSE trace.end_time,
     project_rowid |-> IF trace.end_time < span.end_time
                       THEN project_rowid ELSE trace.project_rowid]

\* WidenedTrace with the project reassigned whenever either bound changes.
WidenedTrace_ProjectOnEitherBound(trace, span, project_rowid) ==
    [start_time |-> IF span.start_time < trace.start_time
                    THEN span.start_time ELSE trace.start_time,
     end_time |-> IF trace.end_time < span.end_time THEN span.end_time ELSE trace.end_time,
     project_rowid |-> project_rowid]

\* The trace row as the update statement leaves it.
WidenedTrace(trace, span, project_rowid) ==
    LET end_later == trace.end_time < span.end_time
        start_earlier == span.start_time < trace.start_time
    IN [start_time |-> IF start_earlier THEN span.start_time ELSE trace.start_time,
        end_time |-> IF end_later THEN span.end_time ELSE trace.end_time,
        project_rowid |-> IF end_later THEN project_rowid ELSE trace.project_rowid]

\* TraceNeedsUpdate that looks at the end alone.
TraceNeedsUpdate_EndOnly(trace, span) == trace.end_time < span.end_time

TraceNeedsUpdate(trace, span) ==
    trace.end_time < span.end_time \/ span.start_time < trace.start_time

\* Trace lookup by trace_id, then the update of its window or the insert.
UpsertTrace(v, span, project_rowid) ==
    IF span.trace_id \in DOMAIN v.traces
    THEN IF TraceNeedsUpdate(v.traces[span.trace_id], span)
         THEN <<Write("update_trace", span.trace_id,
                      WidenedTrace(v.traces[span.trace_id], span, project_rowid))>>
         ELSE <<>>
    ELSE <<Write("insert_trace", span.trace_id,
                 [start_time |-> span.start_time, end_time |-> span.end_time,
                  project_rowid |-> project_rowid])>>

\* The span's own contribution to the three cumulative counters.
Own(span) ==
    [err |-> IF span.status_code = "ERROR" THEN 1 ELSE 0,
     prompt |-> OrZero(span.attributes.llm_token_count_prompt),
     completion |-> OrZero(span.attributes.llm_token_count_completion)]

\* The stored rows whose parent_id is span_id.
ChildrenOf(v, span_id) == {k \in DOMAIN v.spans : v.spans[k].parent_id = Some(span_id)}

\* Accumulation that leaves the stored children out.
Accumulation_NoChildren(v, span_id) == [err |-> 0, prompt |-> 0, completion |-> 0]

\* The sums of the cumulative counters over the stored children.
Accumulation(v, span_id) ==
    LET ch == ChildrenOf(v, span_id)
    IN [err |-> SumOver(ch, v.spans, "cumulative_error_count"),
        prompt |-> SumOver(ch, v.spans, "cumulative_llm_token_count_prompt"),
        completion |-> SumOver(ch, v.spans, "cumulative_llm_token_count_completion")]

\* The cumulative values of the new row: own contribution plus the children's.
Cumulative(v, span) ==
    LET acc == Accumulation(v, span.span_id)
        own == Own(span)
    IN [err |-> own.err + acc.err,
        prompt |-> own.prompt + acc.prompt,
        completion |-> own.completion + acc.completion]

SpanRow(span, cum) ==
    [trace_rowid |-> span.trace_id,
     parent_id |-> span.parent_id,
     start_time |-> span.start_time,
     end_time |-> span.end_time,
     status_code |-> span.status_code,
     attributes |-> span.attributes,
     cumulative_error_count |-> cum.err,
     cumulative_llm_token_count_prompt |-> cum.prompt,
     cumulative_llm_token_count_completion |-> cum.completion,
     llm_token_count_prompt |-> span.attributes.llm_token_count_prompt,
     llm_token_count_completion |-> span.attributes.llm_token_count_completion]

\* InsertOnConflict that writes the row over the stored one.
InsertOnConflict_Overwrite(v, span, cum) ==
    <<Write("insert_span", span.span_id, SpanRow(span, cum))>>

\* insert ... on conflict (span_id) do nothing: no write when span_id is stored.
InsertOnConflict(v, span, cum) ==
    IF span.span_id \in DOMAIN v.spans THEN <<>>
    ELSE <<Write("insert_span", span.span_id, SpanRow(span, cum))>>

\* SkippedInsert that never sees the conflict.
SkippedInsert_Never(inserted) == FALSE

\* span_rowid is None: the insert wrote nothing, and the call returns None.
SkippedInsert(inserted) == inserted = <<>>

\* The recursive query over the parent links.  frontier is the rows the last
\* step found and acc the rows found so far; a span_id names at most one row,
\* so a walk that has taken more steps than there are rows is on a cycle and
\* the query, a UNION ALL, never comes to an end.
\* AncestorWalk that stops at the parent.
AncestorWalk_ParentOnly(v, frontier, acc, steps) == [ended |-> TRUE, ids |-> frontier]

RECURSIVE AncestorWalk(_, _, _, _)
AncestorWalk(v, frontier, acc, steps) ==
    IF frontier = {} THEN [ended |-> TRUE, ids |-> acc]
    ELSE IF steps > Cardinality(DOMAIN v.spans) THEN [ended |-> FALSE, ids |-> acc]
    ELSE AncestorWalk(v,
            {k \in DOMAIN v.spans : \E c \in frontier : v.spans[c].parent_id = Some(k)},
            acc \cup frontier, steps + 1)

Ancestors(v, parent_id) ==
    AncestorWalk(v, {k \in DOMAIN v.spans : parent_id = Some(k)}, {}, 0)

\* PropagateToAncestors that updates nothing.
PropagateToAncestors_Nothing(ids, cum) == <<>>

\* The relative update of every ancestor's counters.
PropagateToAncestors(ids, cum) ==
    IF ids = {} THEN <<>> ELSE <<Write("increment_spans", ids, cum)>>

----------------------------------------------------------------------------
(* Session correlation *)

\* Truth value of an optional list: present and not empty.
Truthy(o) == o # None /\ o[1] # <<>>

\* Correlates with the session identifier tested for truth, so that 0 is absent.
Correlates_ZeroAbsent(span) ==
    LET chat_session_id == span.attributes.session_id
        span_kind == span.attributes.openinference_span_kind
    IN /\ chat_session_id.kind # "none"
       /\ (chat_session_id.kind = "int" => chat_session_id.num # 0)
       /\ (chat_session_id.kind # "str" \/ Strip(chat_session_id.str) # <<>>)
       /\ span_kind.kind = "str"
       /\ Lower(span_kind.str) = Lower(LLM)
       /\ (Truthy(span.attributes.llm_input_messages)
           \/ Truthy(span.attributes.llm_output_messages))

\* The condition under which the span is correlated into a session.
Correlates(span) ==
    LET chat_session_id == span.attributes.session_id
        span_kind == span.attributes.openinference_span_kind
    IN /\ chat_session_id.kind # "none"
       /\ (chat_session_id.kind # "str" \/ Strip(chat_session_id.str) # <<>>)
       /\ span_kind.kind = "str"
       /\ Lower(span_kind.str) = Lower(LLM)
       /\ (Truthy(span.attributes.llm_input_messages)
           \/ Truthy(span.attributes.llm_output_messages))

SessionId(span) == Strip(ToStr(span.attributes.session_id))

\* SessionRows that finds no row, so that every correlated span makes a session.
SessionRows_NotFound(v, session_id) == {}

\* The ids of the ProjectSession rows with this session_id.
SessionRows(v, session_id) ==
    {i \in 1..Len(v.sessions) : v.sessions[i].session_id = session_id}

\* The row the lookup by session_id returns: the first one.
FirstSession(v, session_id) ==
    CHOOSE i \in SessionRows(v, session_id) : \A j \in SessionRows(v, session_id) : i <= j

\* UpdatedSession with the user overwritten by every span that supplies one.
UpdatedSession_UserOverwritten(ps, span, project_rowid, trace) ==
    [ps EXCEPT
        !.start_time = IF trace.start_time < ps.start_time THEN trace.start_time ELSE @,
        !.end_time = IF ps.end_time < trace.end_time THEN trace.end_time ELSE @,
        !.session_user = IF span.attributes.user_id # None
                         THEN span.attributes.user_id ELSE @,
        !.project_id = project_rowid]

\* UpdatedSession with the project reassigned only when the window changes.
UpdatedSession_ProjectOnWiden(ps, span, project_rowid, trace) ==
    [ps EXCEPT
        !.start_time = IF trace.start_time < ps.start_time THEN trace.start_time ELSE @,
        !.end_time = IF ps.end_time < trace.end_time THEN trace.end_time ELSE @,
        !.session_user = IF ps.session_user = None /\ span.attributes.user_id # None
                         THEN span.attributes.user_id ELSE @,
        !.project_id = IF trace.start_time < ps.start_time \/ ps.end_time < trace.end_time
                       THEN project_rowid ELSE @]

\* The existing session with the changes the span and its trace bring.
UpdatedSession(ps, span, project_rowid, trace) ==
    [ps EXCEPT
        !.start_time = IF trace.start_time < ps.start_time THEN trace.start_time ELSE @,
        !.end_time = IF ps.end_time < trace.end_time THEN trace.end_time ELSE @,
        !.session_user = IF ps.session_user = None /\ span.attributes.user_id # None
                         THEN span.attributes.user_id ELSE @,
        !.project_id = project_rowid]

NewSession(span, project_rowid) ==
    [session_id |-> SessionId(span),
     session_user |-> span.attributes.user_id,
     project_id |-> project_rowid,
     start_time |-> span.start_time,
     end_time |-> span.end_time]

\* ChatSessionSpan with the identifier as text, not stripped.
ChatSessionSpan_NotStripped(session_rowid, span, project_rowid) ==
    [session_rowid |-> session_rowid,
     session_id |-> ToStr(span.attributes.session_id),
     session_user |-> span.attributes.user_id,
     timestamp |-> span.start_time,
     span_rowid |-> span.span_id,
     trace_rowid |-> span.trace_id,
     project_id |-> project_rowid]

ChatSessionSpan(session_rowid, span, project_rowid) ==
    [session_rowid |-> session_rowid,
     session_id |-> SessionId(span),
     session_user |-> span.attributes.user_id,
     timestamp |-> span.start_time,
     span_rowid |-> span.span_id,
     trace_rowid |-> span.trace_id,
     project_id |-> project_rowid]

\* The writes of the correlation: the session created or updated, then the link.
CorrelateSession(v, span, project_rowid, trace) ==
    IF SessionRows(v, SessionId(span)) = {}
    THEN <<Write("insert_session", Len(v.sessions) + 1, NewSession(span, project_rowid)),
           Write("insert_link", Len(v.links) + 1,
                 ChatSessionSpan(Len(v.sessions) + 1, span, project_rowid))>>
    ELSE LET id == FirstSession(v, SessionId(span))
             ps == UpdatedSession(v.sessions[id], span, project_rowid, trace)
         IN (IF ps # v.sessions[id] THEN <<Write("update_session", id, ps)>> ELSE <<>>)
            \o <<Write("insert_link", Len(v.links) + 1,
                       ChatSessionSpan(id, span, project_rowid))>>

----------------------------------------------------------------------------
(* One whole call of insert_span, its statements run one after the other *)

Idle == [kind |-> "idle", project_rowid |-> ""]
ReturnedNone == [kind |-> "None", project_rowid |-> ""]
SpanInsertionEvent(project_rowid) == [kind |-> "event", project_rowid |-> project_rowid]
\* The call is still in the ancestor query, which has no end.
Diverged == [kind |-> "diverged", project_rowid |-> ""]

InsertSpanResult(db, span, project_name) ==
    LET project_rowid == project_name
        v1 == ApplyAll(db, ResolveProject(db, project_name))
        v2 == ApplyAll(v1, UpsertTrace(v1, span, project_rowid))
        trace == v2.traces[span.trace_id]
        cum == Cumulative(v2, span)
        inserted == InsertOnConflict(v2, span, cum)
        v3 == ApplyAll(v2, inserted)
        walk == Ancestors(v3, span.parent_id)
        v4 == ApplyAll(v3, PropagateToAncestors(walk.ids, cum))
        v5 == IF Correlates(span)
              THEN ApplyAll(v4, CorrelateSession(v4, span, project_rowid, trace))
              ELSE v4
    IN IF SkippedInsert(inserted) THEN [db |-> v2, ret |-> ReturnedNone]
       ELSE IF ~walk.ended THEN [db |-> db, ret |-> Diverged]
       ELSE [db |-> v5, ret |-> SpanInsertionEvent(project_rowid)]

----------------------------------------------------------------------------
(* The inputs of the calls *)

Attributes(prompt, completion, session_id, span_kind, inp, out, user_id) ==
    [llm_token_count_prompt |-> prompt,
     llm_token_count_completion |-> completion,
     session_id |-> session_id,
     openinference_span_kind |-> span_kind,
     llm_input_messages |-> inp,
     llm_output_messages |-> out,
     user_id |-> user_id]

\* Attributes of a span that carries token counts and nothing about a session.
TokenAttributes(prompt, completion) ==
    Attributes(prompt, completion, NoAttr, NoAttr, None, None, None)

Span(span_id, parent_id, trace_id, status_code, start_time, end_time, attributes) ==
    [span_id |-> span_id, parent_id |-> parent_id, trace_id |-> trace_id,
     status_code |-> status_code, start_time |-> start_time, end_time |-> end_time,
     attributes |-> attributes]

\* The time all windows of the model contain.
MidTime == (1 + MaxTime) \div 2
Windows == {w \in Times \X Times : w[1] <= MidTime /\ MidTime <= w[2]}

\* Own contributions: none, an error, or token counts.
TokenCounts == {<<None, None>>, <<Some(1), Some(MaxTokens)>>}

\* Spans of one trace with every parent link, cycles included.
TreeSpans ==
    {Span(id, parent, "t1", status, MidTime, MidTime, TokenAttributes(tk[1], tk[2])) :
        id \in SpanIds, parent \in {None} \cup {Some(x) : x \in SpanIds},
        status \in {"OK", "ERROR"}, tk \in TokenCounts}

\* Root spans of two traces with every window.
WindowSpans ==
    {Span(id, None, trace_id, "OK", w[1], w[2], TokenAttributes(None, None)) :
        id \in {"a", "b"}, trace_id \in TraceIds, w \in Windows}

SessionIdValues ==
    {NoAttr, StrAttr(<<>>), StrAttr(<<" ">>), StrAttr(<<" ", "s">>), StrAttr(<<"0">>),
     IntAttr(0)}
SpanKindValues ==
    {NoAttr, StrAttr(<<"L", "L", "M">>), StrAttr(<<"l", "l", "m">>), StrAttr(<<"C">>),
     IntAttr(1)}
MessageValues == {None, Some(<<>>), Some(<<"m">>)}

\* One span with every combination of the attributes the correlation reads.
CorrelationSpans ==
    {Span("a", None, "t1", "OK", MidTime, MidTime,
          Attributes(None, None, sid, kind, inp, out, user)) :
        sid \in SessionIdValues, kind \in SpanKindValues,
        inp \in MessageValues, out \in MessageValues, user \in {None}}

\* A span of trace t1 with an input message: one the correlation takes when its
\* span kind is LLM and its session identifier is there.
SessionSpan(id, w, sid, kind, user) ==
    Span(id, None, "t1", "OK", w[1], w[2],
         Attributes(None, None, sid, kind, Some(<<"m">>), None, user))

\* Spans of several session identifiers, two of them equal once stripped, and
\* spans that are not of kind LLM.
SessionSpans ==
    {SessionSpan(id, <<MidTime, MidTime>>, sk[1], sk[2], None) :
        id \in SpanIds,
        sk \in {<<StrAttr(<<"s">>), StrAttr(LLM)>>, <<StrAttr(<<" ", "s">>), StrAttr(LLM)>>,
                <<StrAttr(<<"r">>), StrAttr(LLM)>>, <<StrAttr(<<"s">>), NoAttr>>,
                <<IntAttr(0), StrAttr(LLM)>>, <<StrAttr(<<"0">>), StrAttr(LLM)>>}}

\* Spans of one session identifier with every window, of kind LLM or not.
SessionWindowSpans ==
    {SessionSpan(id, w, StrAttr(<<"s">>), kind, None) :
        id \in SpanIds, w \in Windows, kind \in {StrAttr(LLM), NoAttr}}

UserIds == {None, Some(<<"u">>), Some(<<"v">>)}

\* LLM spans of one session identifier with and without a user identifier.
SessionUserSpans ==
    {SessionSpan(id, <<MidTime, MidTime>>, StrAttr(<<"s">>), StrAttr(LLM), user) :
        id \in SpanIds, user \in UserIds}

\* LLM spans of one session identifier that widen the trace or leave it as it
\* is, sent for either project.
SessionOwnerSpans ==
    {SessionSpan(id, <<MidTime, e>>, StrAttr(<<"s">>), StrAttr(LLM), None) :
        id \in SpanIds, e \in {MidTime, MaxTime}}

Workloads == {"tree", "window", "correlation"}
SessionWorkloads == {"session", "session_window", "session_user", "session_owner"}

InputSpans(w) ==
    CASE w = "tree" -> TreeSpans
      [] w = "window" -> WindowSpans
      [] w = "correlation" -> CorrelationSpans
      [] w = "session" -> SessionSpans
      [] w = "session_window" -> SessionWindowSpans
      [] w = "session_user" -> SessionUserSpans
      [] w = "session_owner" -> SessionOwnerSpans

InputProjects(w) == IF w \in {"window", "session_owner"} THEN ProjectNames ELSE {"p1"}

\* What is kept of a call's arguments: the span_id, the project name, and whether
\* the span is a retransmission, one equal in every column to the stored row of
\* its span_id.
Retransmission(db, span) ==
    /\ span.span_id \in DOMAIN db.spans
    /\ \E cum \in {[err |-> db.spans[span.span_id].cumulative_error_count,
                    prompt |-> db.spans[span.span_id].cumulative_llm_token_count_prompt,
                    completion |->
                        db.spans[span.span_id].cumulative_llm_token_count_completion]} :
          db.spans[span.span_id] = SpanRow(span, cum)

NoCall == [span_id |-> "", project_name |-> "", retransmission |-> FALSE]

\* No client is paging.
NoPager == [pc |-> "none"]

\* No token store is running.
NoStore == [running |-> FALSE]

----------------------------------------------------------------------------
(* Calls made one at a time *)

Init ==
    /\ workload \in Workloads
    /\ projects = {}
    /\ traces = <<>>
    /\ spans = <<>>
    /\ sessions = <<>>
    /\ links = <<>>
    /\ passed = <<>>
    /\ call = NoCall
    /\ ret = Idle
    /\ pager = NoPager
    /\ jwt = NoStore
    /\ txn = <<>>

Min(a, b) == IF a <= b THEN a ELSE b
Max(a, b) == IF a >= b THEN a ELSE b

\* The history of the windows passed for a trace, with this span's added.
Passed(h, span) ==
    IF span.trace_id \in DOMAIN h
    THEN [h EXCEPT ![span.trace_id] =
            [earliest_start |-> Min(@.earliest_start, span.start_time),
             latest_end |-> Max(@.latest_end, span.end_time)]]
    ELSE Put(h, span.trace_id,
             [earliest_start |-> span.start_time, latest_end |-> span.end_time])

InsertSpan(span, project_name) ==
    LET r == InsertSpanResult(DB, span, project_name)
    IN /\ projects' = r.db.projects
       /\ passed' = IF r.ret = Diverged THEN passed ELSE Passed(passed, span)
       /\ traces' = r.db.traces
       /\ spans' = r.db.spans
       /\ sessions' = r.db.sessions
       /\ links' = r.db.links
       /\ call' = [span_id |-> span.span_id, project_name |-> project_name,
                   retransmission |-> Retransmission(DB, span)]
       /\ ret' = r.ret
       /\ UNCHANGED <<workload, pager, jwt, txn>>

Next ==
    \E span \in InputSpans(workload), project_name \in InputProjects(workload) :
        InsertSpan(span, project_name)

Spec == Init /\ [][Next]_vars

\* Calls made one at a time with spans that belong to sessions.
InitSession ==
    /\ workload \in SessionWorkloads
    /\ projects = {}
    /\ traces = <<>>
    /\ spans = <<>>
    /\ sessions = <<>>
    /\ links = <<>>
    /\ passed = <<>>
    /\ call = NoCall
    /\ ret = Idle
    /\ pager = NoPager
    /\ jwt = NoStore
    /\ txn = <<>>

SpecSession == InitSession /\ [][Next]_vars

----------------------------------------------------------------------------
(* Calls made at the same time.  Each call runs in a transaction of its own  *)
(* against a store that shows a statement the committed rows and the rows    *)
(* its own transaction has written, makes a write wait for a transaction in  *)
(* progress that has written the same row or the same unique key, and        *)
(* applies a transaction's writes when it commits.                           *)

Procs == {1, 2}

\* The root span of a trace, and a child of it that belongs to a session.
RootSpan == Span("a", None, "t1", "ERROR", MidTime, MidTime, TokenAttributes(None, None))
ChildSpan ==
    Span("b", Some("a"), "t1", "ERROR", MidTime, MaxTime,
         Attributes(Some(1), Some(MaxTokens), StrAttr(<<"s">>), StrAttr(LLM),
                    Some(<<"m">>), None, None))

ConcurrentSpans == {RootSpan, ChildSpan}

\* A span of the same trace, stored before the calls begin.
EarlierSpan == Span("c", None, "t1", "OK", 1, MidTime, TokenAttributes(None, None))

\* The stores the calls begin with: nothing, the earlier span, or the root span.
InitialStores ==
    {EmptyDB,
     InsertSpanResult(EmptyDB, EarlierSpan, "p1").db,
     InsertSpanResult(EmptyDB, RootSpan, "p1").db}

\* The inserts on which the store enforces a unique key without the statement
\* saying what to do on a conflict: the project name and the trace_id.
UniqueKeyInserts == {"insert_project", "insert_trace"}

Transaction(span, project_name) ==
    [pc |-> "select_project", span |-> span, project_name |-> project_name,
     trace |-> None, cum |-> [err |-> 0, prompt |-> 0, completion |-> 0],
     span_rowid |-> None, project_session |-> None, writes |-> <<>>,
     ret |-> Idle, error |-> ""]

\* The store as a statement of transaction p sees it.
Visible(p) == ApplyAll(DB, txn[p].writes)

InProgress(q) == txn[q].pc \notin {"done", "failed", "diverged"}

\* Another transaction in progress has written this key with one of these writes.
Pending(p, ops, key) ==
    \E q \in Procs \ {p} :
        /\ InProgress(q)
        /\ \E i \in 1..Len(txn[q].writes) :
            /\ txn[q].writes[i].op \in ops
            /\ txn[q].writes[i].key = key

\* Another transaction in progress has incremented one of these span rows.
PendingIncrement(p, ids) ==
    \E q \in Procs \ {p} :
        /\ InProgress(q)
        /\ \E i \in 1..Len(txn[q].writes) :
            /\ txn[q].writes[i].op = "increment_spans"
            /\ txn[q].writes[i].key \cap ids # {}

\* The statement raised: the call fails and its transaction is rolled back.
Raise(p, error) ==
    txn' = [txn EXCEPT ![p].pc = "failed", ![p].writes = <<>>, ![p].error = error]

Step(p, pc, ws) ==
    txn' = [txn EXCEPT ![p].pc = pc, ![p].writes = @ \o ws]

InitConcurrent ==
    /\ workload = "concurrent"
    /\ \E db \in InitialStores :
        /\ projects = db.projects
        /\ traces = db.traces
        /\ spans = db.spans
        /\ sessions = db.sessions
        /\ links = db.links
    /\ passed = <<>>
    /\ call = NoCall
    /\ ret = Idle
    /\ pager = NoPager
    /\ jwt = NoStore
    /\ txn \in [Procs -> {Transaction(s, n) : s \in ConcurrentSpans, n \in {"p1"}}]

SelectProject(p) ==
    /\ txn[p].pc = "select_project"
    /\ IF ResolveProject(Visible(p), txn[p].project_name) = <<>>
       THEN Step(p, "select_trace", <<>>)
       ELSE Step(p, "insert_project", <<>>)
    /\ UNCHANGED <<workload, pager, jwt, storeVars, passed, call, ret>>

InsertProject(p) ==
    /\ txn[p].pc = "insert_project"
    /\ ~Pending(p, {"insert_project"}, txn[p].project_name)
    /\ IF "insert_project" \in UniqueKeyInserts /\ txn[p].project_name \in projects
       THEN Raise(p, "IntegrityError: project name")
       ELSE Step(p, "select_trace",
                 <<Write("insert_project", txn[p].project_name, txn[p].project_name)>>)
    /\ UNCHANGED <<workload, pager, jwt, storeVars, passed, call, ret>>

SelectTrace(p) ==
    LET v == Visible(p)
        span == txn[p].span
    IN /\ txn[p].pc = "select_trace"
       /\ IF span.trace_id \in DOMAIN v.traces
          THEN txn' = [txn EXCEPT
                  ![p].trace = Some(v.traces[span.trace_id]),
                  ![p].pc = IF TraceNeedsUpdate(v.traces[span.trace_id], span)
                            THEN "update_trace" ELSE "select_accumulation"]
          ELSE Step(p, "insert_trace", <<>>)
       /\ UNCHANGED <<workload, pager, jwt, storeVars, passed, call, ret>>

UpdateTrace(p) ==
    LET span == txn[p].span
        row == WidenedTrace(txn[p].trace[1], span, txn[p].project_name)
    IN /\ txn[p].pc = "update_trace"
       /\ ~Pending(p, {"insert_trace", "update_trace"}, span.trace_id)
       /\ txn' = [txn EXCEPT
               ![p].pc = "select_accumulation",
               ![p].trace = Some(row),
               ![p].writes = @ \o <<Write("update_trace", span.trace_id, row)>>]
       /\ UNCHANGED <<workload, pager, jwt, storeVars, passed, call, ret>>

InsertTrace(p) ==
    LET span == txn[p].span
        row == [start_time |-> span.start_time, end_time |-> span.end_time,
                project_rowid |-> txn[p].project_name]
    IN /\ txn[p].pc = "insert_trace"
       /\ ~Pending(p, {"insert_trace"}, span.trace_id)
       /\ IF "insert_trace" \in UniqueKeyInserts /\ span.trace_id \in DOMAIN traces
          THEN Raise(p, "IntegrityError: trace_id")
          ELSE txn' = [txn EXCEPT
                  ![p].pc = "select_accumulation",
                  ![p].trace = Some(row),
                  ![p].writes = @ \o <<Write("insert_trace", span.trace_id, row)>>]
       /\ UNCHANGED <<workload, pager, jwt, storeVars, passed, call, ret>>

SelectAccumulation(p) ==
    /\ txn[p].pc = "select_accumulation"
    /\ txn' = [txn EXCEPT ![p].pc = "insert_span",
                          ![p].cum = Cumulative(Visible(p), txn[p].span)]
    /\ UNCHANGED <<workload, pager, jwt, storeVars, passed, call, ret>>

InsertSpanRow(p) ==
    LET span == txn[p].span
        inserted == InsertOnConflict(Visible(p), span, txn[p].cum)
    IN /\ txn[p].pc = "insert_span"
       /\ ~Pending(p, {"insert_span"}, span.span_id)
       /\ IF SkippedInsert(inserted)
          THEN txn' = [txn EXCEPT ![p].pc = "commit", ![p].ret = ReturnedNone]
          ELSE txn' = [txn EXCEPT ![p].pc = "update_ancestors",
                                  ![p].span_rowid = Some(span.span_id),
                                  ![p].writes = @ \o inserted]
       /\ UNCHANGED <<workload, pager, jwt, storeVars, passed, call, ret>>

UpdateAncestors(p) ==
    LET span == txn[p].span
        walk == Ancestors(Visible(p), span.parent_id)
    IN /\ txn[p].pc = "update_ancestors"
       /\ IF ~walk.ended
          THEN txn' = [txn EXCEPT ![p].pc = "diverged", ![p].ret = Diverged]
          ELSE /\ ~PendingIncrement(p, walk.ids)
               /\ txn' = [txn EXCEPT
                       ![p].writes = @ \o PropagateToAncestors(walk.ids, txn[p].cum),
                       ![p].pc = IF Correlates(span) THEN "select_session" ELSE "commit",
                       ![p].ret = IF Correlates(span)
                                  THEN @ ELSE SpanInsertionEvent(txn[p].project_name)]
       /\ UNCHANGED <<workload, pager, jwt, storeVars, passed, call, ret>>

SelectSession(p) ==
    LET v == Visible(p)
        rows == SessionRows(v, SessionId(txn[p].span))
    IN /\ txn[p].pc = "select_session"
       /\ txn' = [txn EXCEPT
               ![p].pc = "flush_session",
               ![p].project_session =
                    IF rows = {} THEN None
                    ELSE Some(FirstSession(v, SessionId(txn[p].span)))]
       /\ UNCHANGED <<workload, pager, jwt, storeVars, passed, call, ret>>

\* Flush that commits the transaction.
Flush_Commit(db, writes, ws) == [db |-> ApplyAll(db, writes \o ws), writes |-> <<>>]

\* session.flush(): the writes are sent to the store inside the transaction,
\* and the committed rows stay as they are.
Flush(db, writes, ws) == [db |-> db, writes |-> writes \o ws]

\* The session is added or changed, and flushed.
FlushSession(p) ==
    LET ws == CorrelateSession(Visible(p), txn[p].span, txn[p].project_name, txn[p].trace[1])
        f == Flush(DB, txn[p].writes, SubSeq(ws, 1, Len(ws) - 1))
    IN /\ txn[p].pc = "flush_session"
       /\ projects' = f.db.projects
       /\ traces' = f.db.traces
       /\ spans' = f.db.spans
       /\ sessions' = f.db.sessions
       /\ links' = f.db.links
       /\ txn' = [txn EXCEPT ![p].writes = f.writes, ![p].pc = "flush_link"]
       /\ UNCHANGED <<workload, pager, jwt, passed, call, ret>>

\* The link is added and flushed, and the call returns the event.
FlushLink(p) ==
    LET ws == CorrelateSession(Visible(p), txn[p].span, txn[p].project_name, txn[p].trace[1])
        f == Flush(DB, txn[p].writes, <<ws[Len(ws)]>>)
    IN /\ txn[p].pc = "flush_link"
       /\ projects' = f.db.projects
       /\ traces' = f.db.traces
       /\ spans' = f.db.spans
       /\ sessions' = f.db.sessions
       /\ links' = f.db.links
       /\ txn' = [txn EXCEPT ![p].writes = f.writes, ![p].pc = "commit",
                             ![p].ret = SpanInsertionEvent(txn[p].project_name)]
       /\ UNCHANGED <<workload, pager, jwt, passed, call, ret>>

\* The call has returned and its transaction commits.
Commit(p) ==
    LET db == Visible(p)
    IN /\ txn[p].pc = "commit"
       /\ projects' = db.projects
       /\ traces' = db.traces
       /\ spans' = db.spans
       /\ sessions' = db.sessions
       /\ links' = db.links
       /\ txn' = [txn EXCEPT ![p].pc = "done", ![p].writes = <<>>]
       /\ UNCHANGED <<workload, pager, jwt, passed, call, ret>>

NextConcurrent ==
    \E p \in Procs :
        \/ SelectProject(p)
        \/ InsertProject(p)
        \/ SelectTrace(p)
        \/ UpdateTrace(p)
        \/ InsertTrace(p)
        \/ SelectAccumulation(p)
        \/ InsertSpanRow(p)
        \/ UpdateAncestors(p)
        \/ SelectSession(p)
        \/ FlushSession(p)
        \/ FlushLink(p)
        \/ Commit(p)

SpecConcurrent == InitConcurrent /\ [][NextConcurrent]_vars

----------------------------------------------------------------------------
(* Calls that fail.  A statement of a call may raise at any step; the call   *)
(* ends with the error and the unit of work it ran in is rolled back.        *)

\* A transaction that remembers the store its call began with.
FailureTransaction(span, project_name, db) ==
    Transaction(span, project_name) @@ [before |-> db]

InitFailure ==
    /\ workload = "failure"
    /\ \E db \in InitialStores :
        /\ projects = db.projects
        /\ traces = db.traces
        /\ spans = db.spans
        /\ sessions = db.sessions
        /\ links = db.links
        /\ txn \in [Procs -> {FailureTransaction(s, n, db) :
                                s \in ConcurrentSpans, n \in {"p1"}}]
    /\ passed = <<>>
    /\ call = NoCall
    /\ ret = Idle
    /\ pager = NoPager
    /\ jwt = NoStore

\* The statement the call is at raises; error keeps the step it was at.
Fail(p) ==
    /\ InProgress(p)
    /\ txn[p].pc # "commit"
    /\ Raise(p, txn[p].pc)
    /\ UNCHANGED <<workload, pager, jwt, storeVars, passed, call, ret>>

NextFailure ==
    \/ NextConcurrent
    \/ \E p \in Procs : Fail(p)

SpecFailure == InitFailure /\ [][NextFailure]_vars

----------------------------------------------------------------------------
(* Pagination over a list: connection_from_list, and a client that asks for  *)
(* one page after the other.  A cursor is the text "connection:" followed by *)
(* the decimal digits of the offset of its edge in the list; the base64      *)
(* coding of that text, one-to-one, is left out.                             *)

MaxList == 4        \* the longest list paged through
MaxPage == 3        \* the largest page size asked for

DecimalDigits == <<"0", "1", "2", "3", "4", "5", "6", "7", "8", "9">>

\* str(n) of a number that is not negative
RECURSIVE Decimal(_)
Decimal(n) ==
    IF n < 10 THEN <<DecimalDigits[n + 1]>>
    ELSE Decimal(n \div 10) \o <<DecimalDigits[(n % 10) + 1]>>

\* int(s) of a text of decimal digits
RECURSIVE ParseInt(_)
ParseInt(s) ==
    IF s = <<>> THEN 0
    ELSE ParseInt(SubSeq(s, 1, Len(s) - 1)) * 10
         + (CHOOSE d \in 0..9 : DecimalDigits[d + 1] = s[Len(s)])

CURSOR_PREFIX == <<"c", "o", "n", "n", "e", "c", "t", "i", "o", "n", ":">>

offset_to_cursor(offset) == CURSOR_PREFIX \o Decimal(offset)

\* cursor_to_offset that gives the offset after the cursor's.
cursor_to_offset_OffByOne(cursor) ==
    ParseInt(SubSeq(cursor, Len(CURSOR_PREFIX) + 1, Len(cursor))) + 1

cursor_to_offset(cursor) == ParseInt(SubSeq(cursor, Len(CURSOR_PREFIX) + 1, Len(cursor)))

get_offset_with_default(cursor, default_offset) ==
    IF cursor = None THEN default_offset ELSE cursor_to_offset(cursor[1])

\* The arguments of a page request, each one there or not.
ConnectionArgs(first, after, last, before) ==
    [first |-> first, after |-> after, last |-> last, before |-> before]

\* The page of list_slice, the part of a list of list_length elements that
\* begins at offset slice_start (offsets count from 0).
connection_from_list_slice(list_slice, args, slice_start, list_length) ==
    LET slice_end == slice_start + Len(list_slice)
        before_offset == get_offset_with_default(args.before, list_length)
        after_offset == get_offset_with_default(args.after, -1)
        start_0 == Max(Max(slice_start - 1, after_offset), -1) + 1
        end_0 == Min(Min(slice_end, before_offset), list_length)
        end_offset == IF args.first # None THEN Min(end_0, start_0 + args.first[1]) ELSE end_0
        start_offset == IF args.last # None
                        THEN Max(start_0, end_offset - args.last[1]) ELSE start_0
        edges == [i \in 1..Max(end_offset - start_offset, 0) |->
                    [node |-> list_slice[start_offset - slice_start + i],
                     cursor |-> offset_to_cursor(start_offset + i - 1)]]
        lower_bound == IF args.after # None THEN after_offset + 1 ELSE 0
        upper_bound == IF args.before # None THEN before_offset ELSE list_length
    IN [edges |-> edges,
        page_info |->
            [start_cursor |-> IF edges # <<>> THEN Some(edges[1].cursor) ELSE None,
             end_cursor |-> IF edges # <<>> THEN Some(edges[Len(edges)].cursor) ELSE None,
             has_previous_page |-> IF args.last # None THEN start_offset > lower_bound
                                   ELSE FALSE,
             has_next_page |-> IF args.first # None THEN end_offset < upper_bound
                               ELSE FALSE]]

connection_from_list(data, args) == connection_from_list_slice(data, args, 0, Len(data))

Nodes == {"x", "y"}
Lists == UNION {[1..k -> Nodes] : k \in 0..MaxList}
PageSizes == 1..MaxPage

NodesOf(connection) == [i \in 1..Len(connection.edges) |-> connection.edges[i].node]

\* The client: the list, the page size, the last request and its answer, and
\* the nodes of the pages it has received, in list order.
Pager(data, n) ==
    [pc |-> "start", data |-> data, n |-> n,
     args |-> ConnectionArgs(None, None, None, None),
     connection |-> connection_from_list(<<>>, ConnectionArgs(None, None, None, None)),
     visited |-> <<>>]

InitPagination ==
    /\ workload = "pagination"
    /\ projects = {}
    /\ traces = <<>>
    /\ spans = <<>>
    /\ sessions = <<>>
    /\ links = <<>>
    /\ passed = <<>>
    /\ call = NoCall
    /\ ret = Idle
    /\ txn = <<>>
    /\ pager \in {Pager(data, n) : data \in Lists, n \in PageSizes}
    /\ jwt = NoStore

Request(pc, args, forward) ==
    LET connection == connection_from_list(pager.data, args)
    IN /\ pager' = [pager EXCEPT
               !.pc = pc, !.args = args, !.connection = connection,
               !.visited = IF forward THEN @ \o NodesOf(connection)
                           ELSE NodesOf(connection) \o @]
       /\ UNCHANGED <<workload, jwt, storeVars, passed, call, ret, txn>>

\* first=n
RequestFirst ==
    /\ pager.pc = "start"
    /\ Request("forward", ConnectionArgs(Some(pager.n), None, None, None), TRUE)

\* first=n, after=the end_cursor of the page before
RequestAfter ==
    /\ pager.pc = "forward"
    /\ pager.connection.page_info.has_next_page
    /\ Request("forward",
               ConnectionArgs(Some(pager.n), pager.connection.page_info.end_cursor,
                              None, None), TRUE)

\* last=n
RequestLast ==
    /\ pager.pc = "start"
    /\ Request("backward", ConnectionArgs(None, None, Some(pager.n), None), FALSE)

\* last=n, before=the start_cursor of the page before
RequestBefore ==
    /\ pager.pc = "backward"
    /\ pager.connection.page_info.has_previous_page
    /\ Request("backward",
               ConnectionArgs(None, None, Some(pager.n),
                              pager.connection.page_info.start_cursor), FALSE)

NextPagination ==
    \/ RequestFirst
    \/ RequestAfter
    \/ RequestLast
    \/ RequestBefore

SpecPagination == InitPagination /\ [][NextPagination]_vars

----------------------------------------------------------------------------
(* The token store of phoenix (src/phoenix/server/jwt_store.py): one _Store,  *)
(* its table in the database, its cache _claims, the task _run that replaces *)
(* the cache with what _update reads from the table, and callers of create,  *)
(* revoke and get.  All run on one event loop: a step is the code from one   *)
(* await to the next, and a write to the table is seen by the others once    *)
(* its database session has committed.                                       *)

MaxTokenId == 2     \* the tokens created have the ids 1..MaxTokenId
MaxClock == 2       \* the clock runs from 0 to MaxClock

Callers == {1, 2}
TokenIds == 1..MaxTokenId
\* The expiration times of the tokens created; the last is never reached.
ExpirationTimes == {1, MaxClock + 1}

\* f without the keys in S
Drop(f, S) == [k \in DOMAIN f \ S |-> f[k]]

\* A claim set: the token id, once there is one, and the expiration time.
ClaimSet(token_id, expiration_time) ==
    [token_id |-> token_id, expiration_time |-> expiration_time]

\* _to_db: the record of a claim set
ToDb(claim) == [expires_at |-> claim.expiration_time]

\* _from_db: the claim set of a record
FromDb(id, record) == ClaimSet(Some(id), record.expires_at)

NotCalling == [op |-> "idle", token_id |-> 0, claim |-> ClaimSet(None, 0)]

\* _Claims.get: the claim set kept for token_id, or None
ClaimsGet(claims, token_id) ==
    IF token_id \in DOMAIN claims THEN Some(claims[token_id]) ELSE None

InitJwt ==
    /\ workload = "jwt"
    /\ projects = {}
    /\ traces = <<>>
    /\ spans = <<>>
    /\ sessions = <<>>
    /\ links = <<>>
    /\ passed = <<>>
    /\ call = NoCall
    /\ ret = Idle
    /\ txn = <<>>
    /\ pager = NoPager
    /\ jwt = [running |-> TRUE,
              table |-> <<>>,           \* the committed rows: id -> record
              next_id |-> 1,            \* the id the next insert is given
              claims |-> <<>>,          \* self._claims: token id -> claim set
              now |-> 0,                \* the clock
              update |-> [pc |-> "sleep", claims |-> <<>>, expired |-> {}],
              callers |-> [c \in Callers |-> NotCalling],
              created |-> {},           \* the tokens whose create has returned
              popped |-> {},            \* the tokens a revoke has taken out of the cache
              revoked |-> {},           \* the tokens whose revoke has returned
              got |-> [token_id |-> 0, claim |-> None]]

JwtUnchanged ==
    UNCHANGED <<workload, pager, storeVars, passed, call, ret, txn>>

\* get: what the cache holds for the token
Get(token_id) ==
    /\ jwt' = [jwt EXCEPT !.got = [token_id |-> token_id,
                                   claim |-> ClaimsGet(jwt.claims, token_id)]]
    /\ JwtUnchanged

\* create, up to the end of its database session: the record is added,
\* flushed and committed, and has its id.
CreateFlush(c, expiration_time) ==
    /\ jwt.callers[c].op = "idle"
    /\ jwt.next_id <= MaxTokenId
    /\ jwt' = [jwt EXCEPT
            !.table = Put(@, jwt.next_id, ToDb(ClaimSet(None, expiration_time))),
            !.next_id = @ + 1,
            !.callers[c] = [op |-> "create", token_id |-> jwt.next_id,
                            claim |-> ClaimSet(None, expiration_time)]]
    /\ JwtUnchanged

\* create, from there: the claim set with its token id is put in the cache and
\* the token is returned.
CreateReturn(c) ==
    LET token_id == jwt.callers[c].token_id
        claim == [jwt.callers[c].claim EXCEPT !.token_id = Some(token_id)]
    IN /\ jwt.callers[c].op = "create"
       /\ jwt' = [jwt EXCEPT !.claims = Put(@, token_id, claim),
                             !.created = @ \cup {token_id},
                             !.callers[c] = NotCalling]
       /\ JwtUnchanged

\* revoke, up to its database session: the token is popped from the cache.
RevokePop(c, token_id) ==
    /\ jwt.callers[c].op = "idle"
    /\ token_id \in jwt.created
    /\ jwt' = [jwt EXCEPT !.claims = Drop(@, {token_id}),
                          !.popped = @ \cup {token_id},
                          !.callers[c] = [op |-> "revoke", token_id |-> token_id,
                                          claim |-> ClaimSet(None, 0)]]
    /\ JwtUnchanged

\* revoke, from there: the row is deleted, the session commits, revoke returns.
RevokeDelete(c) ==
    /\ jwt.callers[c].op = "revoke"
    /\ jwt' = [jwt EXCEPT !.table = Drop(@, {jwt.callers[c].token_id}),
                          !.revoked = @ \cup {jwt.callers[c].token_id},
                          !.callers[c] = NotCalling]
    /\ JwtUnchanged

\* _run wakes and begins _update with a new, empty _Claims.
UpdateBegin ==
    /\ jwt.update.pc = "sleep"
    /\ jwt' = [jwt EXCEPT !.update = [pc |-> "delete_expired", claims |-> <<>>,
                                      expired |-> {}]]
    /\ JwtUnchanged

\* _delete_expired_tokens, inside the session of _update
DeleteExpiredTokens ==
    /\ jwt.update.pc = "delete_expired"
    /\ jwt' = [jwt EXCEPT
            !.update.pc = "select",
            !.update.expired = {id \in DOMAIN jwt.table : jwt.table[id].expires_at < jwt.now}]
    /\ JwtUnchanged

\* _update reads the rows of the table into its own claims.
SelectTokens ==
    LET rows == DOMAIN jwt.table \ jwt.update.expired
    IN /\ jwt.update.pc = "select"
       /\ jwt' = [jwt EXCEPT
               !.update.pc = "commit",
               !.update.claims = [id \in rows |-> FromDb(id, jwt.table[id])]]
       /\ JwtUnchanged

\* The session of _update commits: the expired rows are gone.
CommitUpdate ==
    /\ jwt.update.pc = "commit"
    /\ jwt' = [jwt EXCEPT !.update.pc = "assign",
                          !.table = Drop(@, jwt.update.expired)]
    /\ JwtUnchanged

\* self._claims = claims, and _run sleeps.
AssignClaims ==
    /\ jwt.update.pc = "assign"
    /\ jwt' = [jwt EXCEPT !.update.pc = "sleep", !.claims = jwt.update.claims]
    /\ JwtUnchanged

\* Time passes.
Tick ==
    /\ jwt.now < MaxClock
    /\ jwt' = [jwt EXCEPT !.now = @ + 1]
    /\ JwtUnchanged

NextJwt ==
    \/ \E token_id \in TokenIds : Get(token_id)
    \/ \E c \in Callers, expiration_time \in ExpirationTimes : CreateFlush(c, expiration_time)
    \/ \E c \in Callers : CreateReturn(c)
    \/ \E c \in Callers, token_id \in TokenIds : RevokePop(c, token_id)
    \/ \E c \in Callers : RevokeDelete(c)
    \/ UpdateBegin
    \/ DeleteExpiredTokens
    \/ SelectTokens
    \/ CommitUpdate
    \/ AssignClaims
    \/ Tick

SpecJwt == InitJwt /\ [][NextJwt]_vars

----------------------------------------------------------------------------
(* Properties of calls made one at a time *)

OwnOfRow(row) ==
    [err |-> IF row.status_code = "ERROR" THEN 1 ELSE 0,
     prompt |-> OrZero(row.llm_token_count_prompt),
     completion |-> OrZero(row.llm_token_count_completion)]

CumulativeOfRow(row) ==
    [err |-> row.cumulative_error_count,
     prompt |-> row.cumulative_llm_token_count_prompt,
     completion |-> row.cumulative_llm_token_count_completion]

StoredChildren(k) == {c \in DOMAIN spans : spans[c].parent_id = Some(k)}

RECURSIVE SumOfCumulative(_, _)
SumOfCumulative(S, col) ==
    IF S = {} THEN 0
    ELSE LET c == CHOOSE x \in S : TRUE
         IN CumulativeOfRow(spans[c])[col] + SumOfCumulative(S \ {c}, col)

\* C1: after any sequence of calls made one at a time, every stored span's
\* cumulative error count is its own error (1 if its status is ERROR, else 0)
\* plus the sum of the cumulative error counts of its stored direct children,
\* and the same holds for the prompt and the completion token counters.
C1_CumulativeInvariant ==
    \A k \in DOMAIN spans : \A col \in {"err", "prompt", "completion"} :
        CumulativeOfRow(spans[k])[col] =
            OwnOfRow(spans[k])[col] + SumOfCumulative(StoredChildren(k), col)

\* A parent with two stored children, errors and tokens among them.
C1_Witness ==
    \E k \in DOMAIN spans :
        /\ Cardinality(StoredChildren(k)) = 2
        /\ spans[k].cumulative_error_count >= 2
        /\ spans[k].cumulative_llm_token_count_completion >= MaxTokens
        /\ ret.kind = "event"

\* The stored spans below k: its children, their children, and so on, for at
\* most n levels.
RECURSIVE StoredDescendants(_, _)
StoredDescendants(S, n) ==
    IF n = 0 \/ S = {} THEN {}
    ELSE LET ch == UNION {StoredChildren(k) : k \in S}
         IN ch \cup StoredDescendants(ch, n - 1)

RECURSIVE SumOfOwn(_, _)
SumOfOwn(S, col) ==
    IF S = {} THEN 0
    ELSE LET c == CHOOSE x \in S : TRUE
         IN OwnOfRow(spans[c])[col] + SumOfOwn(S \ {c}, col)

\* C2: the cumulative counters do not depend on the order of arrival: at every
\* moment each counter of each stored span is the sum of the own contributions
\* of the span and of the stored spans below it, a value the set of stored rows
\* fixes whatever the order in which insert_span received them.
C2_OrderIndependence ==
    \A k \in DOMAIN spans : \A col \in {"err", "prompt", "completion"} :
        CumulativeOfRow(spans[k])[col] =
            SumOfOwn({k} \cup StoredDescendants({k}, Cardinality(DOMAIN spans)), col)

\* A chain of three stored spans, the root counting the errors of all three.
C2_Witness ==
    /\ DOMAIN spans = SpanIds
    /\ \E r \in SpanIds, m \in SpanIds, l \in SpanIds :
        /\ spans[r].parent_id = None
        /\ spans[m].parent_id = Some(r)
        /\ spans[l].parent_id = Some(m)
        /\ spans[r].cumulative_error_count = 3
        /\ spans[m].cumulative_error_count = 2
        /\ call.span_id = m

\* C3: a call with a span equal in every column to the stored row of its
\* span_id and with a project name that exists, as they are after an earlier
\* call with the same span and project name, leaves projects, traces, spans
\* with their counters, sessions and links as they were and returns None.
C3_Idempotence ==
    [][(call'.retransmission /\ call'.project_name \in projects)
        => (storeVars' = storeVars /\ ret' = ReturnedNone)]_vars

\* The span that made the one session and its link has been sent again.
C3_Witness ==
    /\ call.retransmission
    /\ ret = ReturnedNone
    /\ Len(sessions) = 1
    /\ Len(links) = 1
    /\ links[1].span_rowid = call.span_id

\* C4: a call returns the span-inserted event, for the project it resolved, if
\* and only if it stored a new span row: no row of that span_id was stored
\* before it and one is after it.  For a stored span_id it returns None.
C4_EventIffInserted ==
    [][/\ ret'.kind = "event" <=>
            (call'.span_id \notin DOMAIN spans /\ call'.span_id \in DOMAIN spans')
       /\ ret'.kind = "event" =>
            (ret'.project_rowid = call'.project_name /\ ret'.project_rowid \in projects')
       /\ call'.span_id \in DOMAIN spans => ret' = ReturnedNone]_vars

\* An event for the second project, its span stored.
C4_Witness ==
    /\ ret = SpanInsertionEvent("p2")
    /\ call.span_id \in DOMAIN spans
    /\ Cardinality(DOMAIN spans) = 2

\* C8: a trace's window is the earliest start and the latest end of the spans
\* passed for it; its bounds never narrow; and a call that leaves the window as
\* it was writes nothing to the trace row.
C8_TraceWindow ==
    /\ [](/\ DOMAIN traces = DOMAIN passed
          /\ \A tid \in DOMAIN traces :
                /\ traces[tid].start_time = passed[tid].earliest_start
                /\ traces[tid].end_time = passed[tid].latest_end)
    /\ [][\A tid \in DOMAIN traces :
            /\ tid \in DOMAIN traces'
            /\ traces'[tid].start_time <= traces[tid].start_time
            /\ traces'[tid].end_time >= traces[tid].end_time
            /\ (traces'[tid].start_time = traces[tid].start_time
                /\ traces'[tid].end_time = traces[tid].end_time)
               => traces'[tid] = traces[tid]]_vars

\* A trace wider at both ends than every span stored in it.
C8_Witness ==
    \E tid \in DOMAIN traces :
        /\ traces[tid].start_time = 1
        /\ traces[tid].end_time = MaxTime
        /\ Cardinality({k \in DOMAIN spans : spans[k].trace_rowid = tid}) = 2
        /\ \A k \in DOMAIN spans :
            spans[k].trace_rowid = tid =>
                (spans[k].start_time > 1 \/ spans[k].end_time < MaxTime)

C10_Condition(a) ==
    /\ a.openinference_span_kind.kind = "str"
    /\ Lower(a.openinference_span_kind.str) = <<"l", "l", "m">>
    /\ \/ a.session_id.kind = "int"
       \/ a.session_id.kind = "str" /\ \E i \in 1..Len(a.session_id.str) :
                                          a.session_id.str[i] \notin Whitespace
    /\ \/ (a.llm_input_messages # None /\ Len(a.llm_input_messages[1]) > 0)
       \/ (a.llm_output_messages # None /\ Len(a.llm_output_messages[1]) > 0)

\* C10: a call that stores a new span whose attributes meet the condition adds
\* one ChatSessionSpan, for that span; every other call leaves the
\* ProjectSession and ChatSessionSpan rows as they were.
C10_CorrelationCondition ==
    [][IF ret'.kind = "event" /\ C10_Condition(spans'[call'.span_id].attributes)
       THEN /\ Len(links') = Len(links) + 1
            /\ links'[Len(links')].span_rowid = call'.span_id
            /\ links'[Len(links')].session_rowid \in 1..Len(sessions')
       ELSE links' = links /\ sessions' = sessions]_vars

\* A span with the number 0 as its session identifier has been correlated.
C10_Witness ==
    /\ ret.kind = "event"
    /\ spans[call.span_id].attributes.session_id = IntAttr(0)
    /\ Len(links) = 1
    /\ sessions[1].session_id = <<"0">>

\* C18: a call whose span_id is already stored skips the insert and with it
\* the propagation and the correlation: the stored spans and the counters of
\* each, the ProjectSession rows and the ChatSessionSpan rows are after the
\* call as they were before it.
C18_SkipChangesNothingElse ==
    [][call'.span_id \in DOMAIN spans =>
        /\ DOMAIN spans' = DOMAIN spans
        /\ \A k \in DOMAIN spans : CumulativeOfRow(spans'[k]) = CumulativeOfRow(spans[k])
        /\ sessions' = sessions
        /\ links' = links]_vars

\* The span of the last call was stored already, with other columns than the
\* call's, and below a stored parent whose counters hold its error.
C18_Witness ==
    /\ ret = ReturnedNone
    /\ ~call.retransmission
    /\ call.span_id \in DOMAIN spans
    /\ \E k \in DOMAIN spans :
        /\ spans[call.span_id].parent_id = Some(k)
        /\ spans[call.span_id].cumulative_error_count = 1
        /\ spans[k].cumulative_error_count = 1

\* The stored spans reached from parent_id by following the parent links
\* upward through stored rows, for at most n links.
RECURSIVE StoredAncestors(_, _)
StoredAncestors(parent_id, n) ==
    IF n = 0 \/ parent_id = None THEN {}
    ELSE IF parent_id[1] \notin DOMAIN spans THEN {}
    ELSE {parent_id[1]} \cup StoredAncestors(spans[parent_id[1]].parent_id, n - 1)

\* C19: a call that stores span S gives S its own contribution plus the sum
\* over its already stored children, adds these values once to the counters
\* of each stored span reached from S.parent_id by parent links through
\* stored rows, up to the first ancestor that is not stored, and leaves the
\* counters of every other stored span as they were.
C19_ExactlyTheStoredAncestors ==
    [][ret'.kind = "event" =>
        LET S == call'.span_id
            ancestors == StoredAncestors(spans'[S].parent_id, Cardinality(DOMAIN spans))
        IN /\ DOMAIN spans' = DOMAIN spans \cup {S}
           /\ \A col \in {"err", "prompt", "completion"} :
                /\ CumulativeOfRow(spans'[S])[col] =
                        OwnOfRow(spans'[S])[col] + SumOfCumulative(StoredChildren(S), col)
                /\ \A k \in DOMAIN spans :
                        CumulativeOfRow(spans'[k])[col] =
                            CumulativeOfRow(spans[k])[col]
                            + (IF k \in ancestors THEN CumulativeOfRow(spans'[S])[col] ELSE 0)]_vars

\* The last call stored the leaf of a chain of three spans, each an error, and
\* the parent and the parent's parent each count it.
C19_Witness ==
    /\ ret.kind = "event"
    /\ DOMAIN spans = SpanIds
    /\ \E r \in SpanIds, m \in SpanIds :
        /\ spans[call.span_id].parent_id = Some(m)
        /\ spans[m].parent_id = Some(r)
        /\ spans[r].parent_id = None
        /\ spans[call.span_id].cumulative_error_count = 1
        /\ spans[m].cumulative_error_count = 2
        /\ spans[r].cumulative_error_count = 3

\* C20: the ancestor walk ends for every stored graph of parent links: when
\* the links make a cycle, or a span is its own parent, the call does not stay
\* in the walk but comes to an end.
C20_WalkEnds == ret.kind # "diverged"

\* C21: once a span row is written, later calls only add to its three
\* cumulative counters: each counter of each stored span never decreases, and
\* its own token counts and every other column stay as they were written.
C21_CountersOnlyGrow ==
    [][\A k \in DOMAIN spans :
        /\ k \in DOMAIN spans'
        /\ \A col \in {"err", "prompt", "completion"} :
                CumulativeOfRow(spans'[k])[col] >= CumulativeOfRow(spans[k])[col]
        /\ [spans'[k] EXCEPT
                !.cumulative_error_count = spans[k].cumulative_error_count,
                !.cumulative_llm_token_count_prompt =
                    spans[k].cumulative_llm_token_count_prompt,
                !.cumulative_llm_token_count_completion =
                    spans[k].cumulative_llm_token_count_completion] = spans[k]]_vars

\* The last call stored a child with tokens below a parent stored before it,
\* whose counters now hold more than the parent's own tokens.
C21_Witness ==
    /\ ret.kind = "event"
    /\ \E k \in DOMAIN spans :
        /\ spans[call.span_id].parent_id = Some(k)
        /\ spans[call.span_id].llm_token_count_completion = Some(MaxTokens)
        /\ spans[k].llm_token_count_completion = Some(MaxTokens)
        /\ spans[k].cumulative_llm_token_count_completion = 2 * MaxTokens

\* C22: every stored span's window lies inside the window of its trace: the
\* trace starts no later than the span and ends no earlier.
C22_SpanInsideTrace ==
    \A k \in DOMAIN spans :
        /\ spans[k].trace_rowid \in DOMAIN traces
        /\ traces[spans[k].trace_rowid].start_time <= spans[k].start_time
        /\ spans[k].end_time <= traces[spans[k].trace_rowid].end_time

\* Two spans of one trace, the first to start ending before the trace does and
\* the last to end starting after the trace does.
C22_Witness ==
    \E k \in DOMAIN spans : \E j \in DOMAIN spans :
        /\ spans[k].trace_rowid = spans[j].trace_rowid
        /\ spans[k].start_time = traces[spans[k].trace_rowid].start_time
        /\ spans[k].end_time < traces[spans[k].trace_rowid].end_time
        /\ spans[j].start_time > traces[spans[j].trace_rowid].start_time
        /\ spans[j].end_time = traces[spans[j].trace_rowid].end_time

\* C23 as stated: a call whose span_id is already stored writes nothing at
\* all: no project row is created and no trace row is created, widened or
\* reassigned, whatever project name, trace_id and window it is sent with.
C23_DuplicateWritesNothing ==
    [][call'.span_id \in DOMAIN spans => storeVars' = storeVars]_vars

\* C23 as amended: a call whose span_id is already stored writes no span,
\* counter, session or link, but it has resolved its project and upserted its
\* trace before the insert is skipped: the project it names is stored after
\* it, at most one trace row is made or changed, and the store is as it was
\* only when the project was stored and the trace took in the span's window.
C23_DuplicateUpsertsProjectAndTrace ==
    [][call'.span_id \in DOMAIN spans =>
        /\ spans' = spans
        /\ sessions' = sessions
        /\ links' = links
        /\ projects' = projects \cup {call'.project_name}
        /\ DOMAIN traces \subseteq DOMAIN traces'
        /\ Cardinality({tid \in DOMAIN traces' :
                tid \notin DOMAIN traces \/ traces'[tid] # traces[tid]}) <= 1
        /\ (call'.project_name \in projects /\ passed' = passed)
                <=> storeVars' = storeVars]_vars

\* The last call was skipped, and a project and a trace are stored that no
\* stored span belongs to.
C23_Witness ==
    /\ ret = ReturnedNone
    /\ ~call.retransmission
    /\ \A tid \in DOMAIN traces : traces[tid].project_rowid # call.project_name
    /\ \E tid \in DOMAIN traces : \A k \in DOMAIN spans : spans[k].trace_rowid # tid

----------------------------------------------------------------------------
(* Properties of sessions, calls made one at a time *)

\* The stored spans that met the correlation condition with this identifier.
CorrelatedSpans(session_id) ==
    {k \in DOMAIN spans :
        C10_Condition(spans[k].attributes) /\ SessionId(spans[k]) = session_id}

LinksOf(session_rowid) == {l \in 1..Len(links) : links[l].session_rowid = session_rowid}

\* The last call stored a new span that met the correlation condition.
CorrelatedCall == ret.kind = "event" /\ C10_Condition(spans[call.span_id].attributes)

\* C11: there is at most one ProjectSession per session identifier, and the
\* number of ChatSessionSpan links of a session is the number of distinct
\* stored spans that met the correlation condition with its identifier; the
\* first such span makes the session and one link, each later one only a link.
C11_OneSessionPerIdentifier ==
    /\ [](/\ \A i \in 1..Len(sessions) : \A j \in 1..Len(sessions) :
                sessions[i].session_id = sessions[j].session_id => i = j
          /\ \A i \in 1..Len(sessions) :
                /\ Cardinality(LinksOf(i)) =
                        Cardinality(CorrelatedSpans(sessions[i].session_id))
                /\ {links[l].span_rowid : l \in LinksOf(i)} =
                        CorrelatedSpans(sessions[i].session_id)
          /\ \A l \in 1..Len(links) : links[l].session_rowid \in 1..Len(sessions)
          /\ \A k \in DOMAIN spans :
                C10_Condition(spans[k].attributes) =>
                    \E i \in 1..Len(sessions) : sessions[i].session_id = SessionId(spans[k]))
    /\ [][CorrelatedCall' =>
            /\ Len(links') = Len(links) + 1
            /\ IF \E i \in 1..Len(sessions) :
                        sessions[i].session_id = SessionId(spans'[call'.span_id])
               THEN Len(sessions') = Len(sessions)
               ELSE /\ Len(sessions') = Len(sessions) + 1
                    /\ links'[Len(links')].session_rowid = Len(sessions')]_vars

\* Two sessions: one with the links of two spans whose identifiers are equal
\* once stripped, the other with one link.
C11_Witness ==
    /\ Len(sessions) = 2
    /\ Len(links) = 3
    /\ \E i \in 1..Len(sessions) :
        /\ Cardinality(LinksOf(i)) = 2
        /\ \E k \in CorrelatedSpans(sessions[i].session_id) :
                spans[k].attributes.session_id = StrAttr(<<" ", "s">>)
        /\ \E k \in CorrelatedSpans(sessions[i].session_id) :
                spans[k].attributes.session_id = StrAttr(<<"s">>)

\* C26: every ChatSessionSpan points to a ProjectSession and to a stored
\* span that are there, no stored span has two links, and the session_id kept
\* in the link is the session_id of the ProjectSession it points to: the
\* identifier as text with the whitespace around it stripped, so that the
\* number 0 and the text "0" name one session.
C26_LinksAreSound ==
    /\ \A l \in 1..Len(links) :
        /\ links[l].session_rowid \in 1..Len(sessions)
        /\ links[l].span_rowid \in DOMAIN spans
        /\ links[l].session_id = sessions[links[l].session_rowid].session_id
        /\ \A i \in 1..Len(links[l].session_id) : links[l].session_id[i] \notin Whitespace
        /\ \A m \in 1..Len(links) : links[m].span_rowid = links[l].span_rowid => m = l
    /\ \A k \in DOMAIN spans : \A j \in DOMAIN spans :
        (/\ spans[k].attributes.session_id = IntAttr(0)
         /\ spans[j].attributes.session_id = StrAttr(<<"0">>))
            => \A l \in 1..Len(links) : \A m \in 1..Len(links) :
                (links[l].span_rowid = k /\ links[m].span_rowid = j)
                    => links[l].session_rowid = links[m].session_rowid

\* The session "0" with the links of a span whose identifier is the number 0
\* and of a span whose identifier is the text "0", and a session of a span
\* whose identifier had whitespace around it.
C26_Witness ==
    /\ Len(sessions) = 2
    /\ Len(links) = 3
    /\ \E l \in 1..Len(links) : \E m \in 1..Len(links) : \E n \in 1..Len(links) :
        /\ spans[links[l].span_rowid].attributes.session_id = IntAttr(0)
        /\ spans[links[m].span_rowid].attributes.session_id = StrAttr(<<"0">>)
        /\ spans[links[n].span_rowid].attributes.session_id = StrAttr(<<" ", "s">>)
        /\ links[l].session_rowid = links[m].session_rowid

\* C12: a correlated span whose session identifier has no ProjectSession makes
\* one with the window of the span's trace as it is after the call's trace
\* upsert, with the project resolved for the call as its owner, and with the
\* span's user identifier if it has one.
C12_CreatedWithTraceWindow ==
    [][(CorrelatedCall' /\ Len(sessions') = Len(sessions) + 1) =>
        LET ps == sessions'[Len(sessions')]
            span == spans'[call'.span_id]
            trace == traces'[span.trace_rowid]
        IN /\ ps.start_time = trace.start_time
           /\ ps.end_time = trace.end_time
           /\ ps.project_id = call'.project_name
           /\ ps.session_user = span.attributes.user_id]_vars

\* C13: every ProjectSession's window covers the windows of its member traces:
\* for each trace with a span linked to the session, the session starts no
\* later than the trace and ends no earlier, also when the trace was widened
\* afterwards by spans that are not correlated.
C13_SessionCoversTraces ==
    \A l \in 1..Len(links) :
        /\ sessions[links[l].session_rowid].start_time <= traces[links[l].trace_rowid].start_time
        /\ traces[links[l].trace_rowid].end_time <= sessions[links[l].session_rowid].end_time

\* C14: a ProjectSession's session_user is first-writer-wins: once it holds a
\* user no later call changes it; while it holds none, the first correlated
\* span of the session that supplies a user identifier sets it.
C14_UserFirstWriterWins ==
    [][\A i \in 1..Len(sessions) :
        IF sessions[i].session_user # None
        THEN sessions'[i].session_user = sessions[i].session_user
        ELSE IF /\ CorrelatedCall'
                /\ SessionId(spans'[call'.span_id]) = sessions[i].session_id
                /\ spans'[call'.span_id].attributes.user_id # None
             THEN sessions'[i].session_user = spans'[call'.span_id].attributes.user_id
             ELSE sessions'[i].session_user = None]_vars

\* A session made by a span with no user, given its user by the second span,
\* and left with it by a third span of another user.
C14_Witness ==
    /\ Len(sessions) = 1
    /\ Len(links) = 3
    /\ links[1].session_user = None
    /\ links[2].session_user = Some(<<"u">>)
    /\ links[3].session_user = Some(<<"v">>)
    /\ sessions[1].session_user = Some(<<"u">>)

\* C15: a ProjectSession's owning project is last-writer-wins: after every call
\* that correlates a span into a session, the session's project is the project
\* resolved for that call, whether or not the session's window changed.
C15_ProjectLastWriterWins ==
    [][CorrelatedCall' =>
        \E i \in 1..Len(sessions') :
            /\ sessions'[i].session_id = SessionId(spans'[call'.span_id])
            /\ sessions'[i].project_id = call'.project_name
            /\ links'[Len(links')].session_rowid = i]_vars

\* A session made for the first project and reassigned to the second by a span
\* that left its window as it was.
C15_Witness ==
    /\ CorrelatedCall
    /\ Len(sessions) = 1
    /\ Len(links) = 2
    /\ links[1].project_id = "p1"
    /\ links[2].project_id = "p2"
    /\ links[2].span_rowid = call.span_id
    /\ sessions[1].project_id = "p2"
    /\ sessions[1].start_time = spans[links[1].span_rowid].start_time
    /\ sessions[1].end_time = spans[links[1].span_rowid].end_time

----------------------------------------------------------------------------
(* Properties of calls made at the same time *)

Ended(p) == txn[p].pc \in {"done", "failed"}

\* C5: once the concurrent calls have committed, every stored span's counters
\* hold the contribution of each stored span below it exactly once: each
\* counter is the sum of the own contributions of the span and of its stored
\* descendants, none lost and none counted twice.
C5_ContributionExactlyOnce ==
    (DOMAIN txn = Procs /\ \A p \in Procs : txn[p].pc = "done")
        => \A k \in DOMAIN spans : \A col \in {"err", "prompt", "completion"} :
              CumulativeOfRow(spans[k])[col] =
                SumOfOwn({k} \cup StoredDescendants({k}, Cardinality(DOMAIN spans)), col)

\* C6: of the concurrent calls for one span_id that have come to an end, at
\* most one has stored the row, and it has returned the event; every other has
\* returned None and has written no increment, session or link; the row is
\* stored and the span has at most one link.
C6_OneWinnerOthersNone ==
    \A p \in DOMAIN txn : \A q \in DOMAIN txn \ {p} :
        (txn[p].span.span_id = txn[q].span.span_id /\ Ended(p) /\ Ended(q))
            => /\ ~(txn[p].span_rowid # None /\ txn[q].span_rowid # None)
               /\ txn[p].span_rowid # None => txn[p].ret.kind = "event"
               /\ txn[p].span_rowid = None =>
                    (txn[p].ret = ReturnedNone /\ txn[p].project_session = None)
               /\ txn[p].span.span_id \in DOMAIN spans
               /\ Cardinality({i \in 1..Len(links) :
                                links[i].span_rowid = txn[p].span.span_id}) <= 1

\* C7: no call fails on the insert of a project that another call has created
\* in the meantime.
C7_ProjectRaceSafe ==
    \A p \in DOMAIN txn :
        ~(txn[p].pc = "failed" /\ txn[p].error = "IntegrityError: project name")

\* The store after the calls that began with store before, of which only the
\* calls in S were carried out, one after the other.
RECURSIVE StoreAfter(_, _)
StoreAfter(before, S) ==
    IF S = {} THEN before
    ELSE LET q == CHOOSE x \in S : \A y \in S : x <= y
         IN StoreAfter(InsertSpanResult(before, txn[q].span, txn[q].project_name).db,
                       S \ {q})

\* C16: a call that fails at any step leaves nothing behind: once the calls
\* have come to an end, the store is the store the failed call began with,
\* changed by the other call alone if that one was carried out; no project,
\* trace, span, increment, session or link of the failed call is in it.
C16_AllOrNothing ==
    \A p \in DOMAIN txn :
        (txn[p].pc = "failed" /\ \A q \in DOMAIN txn : Ended(q))
            => DB = StoreAfter(txn[p].before, {q \in DOMAIN txn : txn[q].pc = "done"})

\* The call for the child span failed at the flush of the link, after its
\* project, trace, span row, increment and session were written; the call for
\* the root span was carried out.
C16_Witness ==
    \E p \in DOMAIN txn : \E q \in DOMAIN txn :
        /\ txn[p].pc = "failed"
        /\ txn[p].error = "flush_link"
        /\ txn[p].span_rowid # None
        /\ txn[p].before = EmptyDB
        /\ txn[q].pc = "done"
        /\ txn[q].span = RootSpan
        /\ DOMAIN spans = {"a"}
        /\ sessions = <<>>

----------------------------------------------------------------------------
(* Properties of pagination *)

\* The elements that were left for the last page: those not in a page before.
RemainingBefore == Len(pager.data) - (Len(pager.visited) - Len(pager.connection.edges))

----------------------------------------------------------------------------
(* Properties of the token store *)

\* C24: revocation holds against the refresh: once revoke has taken a token
\* out of the cache, get never returns its claims again, and once revoke has
\* returned, get returns None for good, however revoke and a refresh cycle of
\* _update are interleaved.
C24_RevocationHolds ==
    /\ \A token_id \in jwt.popped : ClaimsGet(jwt.claims, token_id) = None
    /\ \A token_id \in jwt.revoked : ClaimsGet(jwt.claims, token_id) = None

\* C25: a token whose create has returned stays readable: until it is revoked
\* or expires, get returns its claims, however create and a refresh cycle of
\* _update are interleaved.
C25_CreatedStaysReadable ==
    \A token_id \in jwt.created :
        (token_id \notin jwt.popped /\ token_id \in DOMAIN jwt.table
         /\ jwt.table[token_id].expires_at >= jwt.now)
            => ClaimsGet(jwt.claims, token_id) = Some(FromDb(token_id, jwt.table[token_id]))

====
